---- MODULE Spec2Model ----
(***************************************************************************)
(* A model of flex.Start (src/service.go, the three-channel definition at  *)
(* lines 158-221) and of MultiError (lines 224-274).                        *)
(*                                                                         *)
(* One invocation of Start is modelled: the supervisor goroutine (the body *)
(* of Start), one Run goroutine per spawned worker (lines 177-182), one     *)
(* Halt goroutine per worker launched in the halt phase (lines 201-205),    *)
(* and the environment (a signal, the parent context).                      *)
(***************************************************************************)
EXTENDS Integers, Sequences, FiniteSets, TLC

\* The longest worker list Start is called with.
MaxWorkers == 2

(***************************************************************************)
(* Workers: the Worker interface (lines 132-148).  A worker is known to     *)
(* Start only by what its Run and its Halt do.                              *)
(*   run  = "block": Run returns nil once the context is cancelled          *)
(*   run  = "nil"  : Run returns nil at a time of its choosing              *)
(*   run  = "err"  : Run returns a non-nil error at a time of its choosing  *)
(*   halt = "ok"   : Halt returns nil                                       *)
(*   halt = "err"  : Halt returns a non-nil error                           *)
(* When a Run or a Halt call returns is the worker's choice: nothing in    *)
(* Spec forces a call that can return to do so.                            *)
(***************************************************************************)
RunBehaviours == {"block", "nil", "err"}

HaltBehaviours == {"ok", "err"}

NilWorker == [run |-> "none", halt |-> "none"]

Worker == [run : RunBehaviours, halt : HaltBehaviours] \cup {NilWorker}

WorkerLists == UNION {[1..n -> Worker] : n \in 0..MaxWorkers}

\* error values: the nil error, and one distinct error per worker and operation
NoError == [op |-> "nil", w |-> 0]

\* placeholder of a goroutine whose Run or Halt call has not returned
NotReturned == [op |-> "pending", w |-> 0]

RunError(k) == [op |-> "Run", w |-> k]

HaltError(k) == [op |-> "Halt", w |-> k]

\* err.Error() of a worker's error, as a sequence of text pieces
Message(e) == <<e.op, " failed #", e.w>>

(***************************************************************************)
(* MultiError                                                              *)
(***************************************************************************)
RECURSIVE DropNil(_)
\* the loop of newMultiErrorFromChan: the non-nil errors of the channel, in order
DropNil(s) ==
    IF s = <<>> THEN <<>>
    ELSE IF Head(s) # NoError THEN <<Head(s)>> \o DropNil(Tail(s))
         ELSE DropNil(Tail(s))

newMultiErrorFromChan(errs) == [Errors |-> DropNil(errs)]

\* a count test that is off by one
Valid_AtLeastZero(e) == Len(e.Errors) >= 0

\* line 238
Valid(e) == Len(e.Errors) > 0

\* a rendering that shows the last collected error instead of the first
Error_LastError(e) ==
    CASE Len(e.Errors) = 0 -> <<"there are no errors">>
      [] Len(e.Errors) = 1 -> Message(e.Errors[1])
      [] OTHER -> <<"there are more than one errors, first error: ">>
                     \o Message(e.Errors[Len(e.Errors)])

\* lines 241-250

Error(e) ==
    CASE Len(e.Errors) = 0 -> <<"there are no errors">>
      [] Len(e.Errors) = 1 -> Message(e.Errors[1])
      [] OTHER -> <<"there are more than one errors, first error: ">>
                     \o Message(e.Errors[1])

RECURSIVE Join(_, _)
\* strings.Join of a list of texts, each a sequence of pieces
Join(chain, sep) ==
    IF chain = <<>> THEN <<>>
    ELSE IF Len(chain) = 1 THEN Head(chain)
         ELSE Head(chain) \o <<sep>> \o Join(Tail(chain), sep)

\* a chain built by a loop that starts one element late
ErrChain_SkipFirst(e) ==
    [k \in 1..(Len(e.Errors) - 1) |-> Message(e.Errors[k + 1])]

\* lines 268-271: the Error() text of every collected error, in order
ErrChain(e) == [k \in 1..Len(e.Errors) |-> Message(e.Errors[k])]

\* the error fmt.Errorf makes; its text is kept beside it
Synthesized == [op |-> "fmt.Errorf", w |-> 0]

\* the value of a method of MultiError: a bool (Valid), a text (Error), or an
\* error with its text (Unwrap)
NoReturn == [valid |-> FALSE, err |-> NotReturned, text |-> <<>>]

Unwrap(e) ==
    IF Len(e.Errors) = 0
    THEN [valid |-> FALSE, err |-> NoError, text |-> <<>>]
    ELSE IF Len(e.Errors) = 1
         THEN [valid |-> FALSE, err |-> e.Errors[1],
               text |-> Message(e.Errors[1])]
         ELSE [valid |-> FALSE, err |-> Synthesized,
               text |-> <<"multiple errors: ">>
                          \o Join(ErrChain(e), "; next => ")]

(***************************************************************************)
(* What Start returns: nothing yet, nil, one of the two errors.New values,  *)
(* or a MultiError.                                                         *)
(***************************************************************************)
Pending == [kind |-> "pending", Errors |-> <<>>]

NilResult == [kind |-> "nil", Errors |-> <<>>]

ErrNeedWorker == [kind |-> "need at least 1 worker", Errors |-> <<>>]

ErrNilWorker == [kind |-> "received a nil worker", Errors |-> <<>>]

MultiErrorResult(e) == [kind |-> "MultiError", Errors |-> e.Errors]

VARIABLES
    workers,      \* the worker list Start was called with
    pc,           \* where the body of Start is
    i,            \* index of the spawn loop (line 172)
    ctxDerived,   \* signal.NotifyContext has run (line 163)
    chansMade,    \* the three channels exist (lines 166-170)
    parentDone,   \* the caller's context is cancelled or past its deadline
    signalled,    \* an interrupt / termination signal was delivered
    cancelCalled, \* cancel() of the derived context was called
    runErrC,      \* contents of the buffered channels
    haltErrC,
    errC,
    wg,           \* the WaitGroup counter
    runPc,        \* per Run goroutine: idle, spawned, running, sent, exit
    runRet,       \* per Run goroutine: what Run returned
    haltPc,       \* per Halt goroutine: idle, spawned, halting, returned, exit
    haltRet,      \* per Halt goroutine: what Halt returned
    runCalls,     \* per worker: number of Run invocations
    haltCalls,    \* per worker: number of Halt invocations
    result,       \* what Start returned
    errCClosed,   \* close(errC) has run
    multi,        \* a MultiError value a caller holds
    call,         \* the method called on it: none, Valid, Error, Unwrap
    ret           \* what that method returned

vars == <<workers, pc, i, ctxDerived, chansMade, parentDone, signalled,
          cancelCalled, runErrC, haltErrC, errC, wg, runPc, runRet, haltPc,
          haltRet, runCalls, haltCalls, result, errCClosed, multi, call, ret>>

N == Len(workers)

Ids == 1..N

\* a context made by context.WithCancel instead of signal.NotifyContext
CtxDone_IgnoreSignal == ctxDerived /\ (parentDone \/ cancelCalled)

\* a context derived from context.Background() instead of the caller's ctx
CtxDone_IgnoreParent == ctxDerived /\ (signalled \/ cancelCalled)

\* line 163: ctx.Done() of the derived context is closed
CtxDone == ctxDerived /\ (parentDone \/ signalled \/ cancelCalled)

\* channels made one slot too small
ChanCap_OneShort == IF N = 0 THEN 0 ELSE N - 1

\* lines 166-170: capacity of each of the three channels
ChanCap == N

Init ==
    /\ workers \in WorkerLists
    /\ pc = "init"
    /\ i = 1
    /\ ctxDerived = FALSE
    /\ chansMade = FALSE
    /\ parentDone = FALSE
    /\ signalled = FALSE
    /\ cancelCalled = FALSE
    /\ runErrC = <<>>
    /\ haltErrC = <<>>
    /\ errC = <<>>
    /\ wg = 0
    /\ runPc = [g \in Ids |-> "idle"]
    /\ runRet = [g \in Ids |-> NotReturned]
    /\ haltPc = [g \in Ids |-> "idle"]
    /\ haltRet = [g \in Ids |-> NotReturned]
    /\ runCalls = [w \in Ids |-> 0]
    /\ haltCalls = [w \in Ids |-> 0]
    /\ result = Pending
    /\ errCClosed = FALSE
    /\ multi = [Errors |-> <<>>]
    /\ call = "none"
    /\ ret = NoReturn

(***************************************************************************)
(* The body of Start                                                       *)
(***************************************************************************)
\* a length check that is off by one
TooFewWorkers_OffByOne(ws) == Len(ws) < 0

\* line 159: len(workers) < 1
TooFewWorkers(ws) == Len(ws) < 1

\* lines 158-170: the length check, the derived context, the channels
StartEnter ==
    /\ pc = "init"
    /\ IF TooFewWorkers(workers)
       THEN /\ pc' = "returned"
            /\ result' = ErrNeedWorker
            /\ UNCHANGED <<ctxDerived, chansMade>>
       ELSE /\ pc' = IF N = 0 THEN "loop" ELSE "spawn"
            /\ ctxDerived' = TRUE
            /\ chansMade' = TRUE
            /\ UNCHANGED result
    /\ UNCHANGED <<multi, call, ret, errCClosed, workers, i, parentDone, signalled, cancelCalled, runErrC,
                   haltErrC, errC, wg, runPc, runRet, haltPc, haltRet,
                   runCalls, haltCalls>>

\* line 173: worker == nil
IsNil(w) == w = NilWorker

\* lines 172-183: one iteration of the spawn loop; the nil check of entry i
\* comes after the goroutines of entries 1..i-1 were started.  Returning runs
\* the deferred cancel() of line 164.
SpawnLoop ==
    /\ pc = "spawn"
    /\ IF IsNil(workers[i])
       THEN /\ pc' = "returned"
            /\ result' = ErrNilWorker
            /\ cancelCalled' = TRUE
            /\ UNCHANGED <<i, runPc>>
       ELSE /\ runPc' = [runPc EXCEPT ![i] = "spawned"]
            /\ i' = i + 1
            /\ pc' = IF i = N THEN "loop" ELSE "spawn"
            /\ UNCHANGED <<result, cancelCalled>>
    /\ UNCHANGED <<multi, call, ret, errCClosed, workers, ctxDerived, chansMade, parentDone, signalled,
                   runErrC, haltErrC, errC, wg, runRet, haltPc, haltRet,
                   runCalls, haltCalls>>

\* a select whose last case does not wait for ctx.Done()
SelectReady_DoneAlways ==
    {c \in {"haltErrC", "runErrC", "done"} :
        \/ c = "haltErrC" /\ haltErrC # <<>>
        \/ c = "runErrC" /\ runErrC # <<>>
        \/ c = "done"}

\* lines 187-196: the cases of the select that can proceed
SelectReady ==
    {c \in {"haltErrC", "runErrC", "done"} :
        \/ c = "haltErrC" /\ haltErrC # <<>>
        \/ c = "runErrC" /\ runErrC # <<>>
        \/ c = "done" /\ CtxDone}

\* every closure of the halt phase sharing the loop variable's last value
HaltWorkerOf_LoopVar(g) == N

\* lines 200-205: the worker the g-th goroutine of the halt phase halts
HaltWorkerOf(g) == g

\* a select whose receive cases forward the value at the head of a channel
\* and leave it in the channel
Select_NoDequeue ==
    /\ pc = "loop"
    /\ \E c \in SelectReady :
          IF c = "done"
          THEN /\ wg' = N
               /\ haltPc' = [g \in Ids |-> "spawned"]
               /\ pc' = "wait"
               /\ UNCHANGED <<runErrC, haltErrC, errC>>
          ELSE /\ Len(errC) < ChanCap
               /\ errC' = Append(errC, IF c = "runErrC" THEN Head(runErrC)
                                                        ELSE Head(haltErrC))
               /\ UNCHANGED <<runErrC, haltErrC, wg, haltPc, pc>>
    /\ UNCHANGED <<multi, call, ret, errCClosed, workers, i, ctxDerived,
                   chansMade, parentDone, signalled, cancelCalled, runPc,
                   runRet, haltRet, runCalls, haltCalls, result>>

\* lines 185-206: one pass of the select.  Go picks one of the ready cases at
\* random.  A receive forwards the value to errC (lines 188-195); the Done
\* case adds len(workers) to the WaitGroup and launches the Halt goroutines.
Select ==
    /\ pc = "loop"
    /\ \E c \in SelectReady :
          IF c = "done"
          THEN /\ wg' = N
               /\ haltPc' = [g \in Ids |-> "spawned"]
               /\ pc' = "wait"
               /\ UNCHANGED <<runErrC, haltErrC, errC>>
          ELSE /\ Len(errC) < ChanCap
               /\ errC' = Append(errC, IF c = "runErrC" THEN Head(runErrC)
                                                        ELSE Head(haltErrC))
               /\ runErrC' = IF c = "runErrC" THEN Tail(runErrC) ELSE runErrC
               /\ haltErrC' = IF c = "haltErrC" THEN Tail(haltErrC) ELSE haltErrC
               /\ UNCHANGED <<wg, haltPc, pc>>
    /\ UNCHANGED <<multi, call, ret, errCClosed, workers, i, ctxDerived, chansMade, parentDone, signalled,
                   cancelCalled, runPc, runRet, haltRet, runCalls, haltCalls,
                   result>>

\* the halt phase without its wg.Wait()
WgWaitReady_NoWait == TRUE

\* line 208: wg.Wait() returns
WgWaitReady == wg = 0

\* a return of the aggregate without the err.Valid() test
StartResult_NoValidCheck(ch) == MultiErrorResult(newMultiErrorFromChan(ch))

\* lines 216-220: the value Start returns from the closed errC
StartResult(ch) ==
    IF Valid(newMultiErrorFromChan(ch))
    THEN MultiErrorResult(newMultiErrorFromChan(ch))
    ELSE NilResult

\* lines 208-221: the barrier, close(errC), the result, the deferred cancel()
WaitAndReturn ==
    /\ pc = "wait"
    /\ WgWaitReady
    /\ pc' = "returned"
    /\ errCClosed' = TRUE
    /\ result' = StartResult(errC)
    /\ cancelCalled' = TRUE
    /\ UNCHANGED <<multi, call, ret, workers, i, ctxDerived, chansMade, parentDone, signalled,
                   runErrC, haltErrC, errC, wg, runPc, runRet, haltPc, haltRet,
                   runCalls, haltCalls>>

Supervisor == StartEnter \/ SpawnLoop \/ Select \/ WaitAndReturn

(***************************************************************************)
(* The Run goroutine of worker g (lines 177-182)                           *)
(***************************************************************************)
\* line 178: the goroutine calls worker.Run(ctx)
RunCall(g) ==
    /\ runPc[g] = "spawned"
    /\ runPc' = [runPc EXCEPT ![g] = "running"]
    /\ runCalls' = [runCalls EXCEPT ![g] = @ + 1]
    /\ UNCHANGED <<multi, call, ret, errCClosed, workers, pc, i, ctxDerived, chansMade, parentDone, signalled,
                   cancelCalled, runErrC, haltErrC, errC, wg, runRet, haltPc,
                   haltRet, haltCalls, result>>

\* a Run goroutine that reports and cancels on any return
RunFailed_AnyReturn(err) == TRUE

\* line 178: err != nil
RunFailed(err) == err # NoError

\* what worker g's Run returns, by its behaviour
RunValue(g) == IF workers[g].run = "err" THEN RunError(g) ELSE NoError

\* lines 178-179: Run returns; a non-nil error is sent on runErrC
RunReturn(g) ==
    /\ runPc[g] = "running"
    /\ workers[g].run = "block" => CtxDone
    /\ runRet' = [runRet EXCEPT ![g] = RunValue(g)]
    /\ IF RunFailed(RunValue(g))
       THEN /\ Len(runErrC) < ChanCap
            /\ runErrC' = Append(runErrC, RunValue(g))
            /\ runPc' = [runPc EXCEPT ![g] = "sent"]
       ELSE /\ runPc' = [runPc EXCEPT ![g] = "exit"]
            /\ UNCHANGED runErrC
    /\ UNCHANGED <<multi, call, ret, errCClosed, workers, pc, i, ctxDerived, chansMade, parentDone, signalled,
                   cancelCalled, haltErrC, errC, wg, haltPc, haltRet, runCalls,
                   haltCalls, result>>

\* line 180: cancel()
RunCancel(g) ==
    /\ runPc[g] = "sent"
    /\ cancelCalled' = TRUE
    /\ runPc' = [runPc EXCEPT ![g] = "exit"]
    /\ UNCHANGED <<multi, call, ret, errCClosed, workers, pc, i, ctxDerived, chansMade, parentDone, signalled,
                   runErrC, haltErrC, errC, wg, runRet, haltPc, haltRet,
                   runCalls, haltCalls, result>>

(***************************************************************************)
(* The g-th Halt goroutine (lines 201-205)                                 *)
(***************************************************************************)
\* line 203: the goroutine calls worker.Halt(ctx)
HaltCall(g) ==
    /\ haltPc[g] = "spawned"
    /\ haltPc' = [haltPc EXCEPT ![g] = "halting"]
    /\ haltCalls' = [haltCalls EXCEPT ![HaltWorkerOf(g)] = @ + 1]
    /\ UNCHANGED <<multi, call, ret, errCClosed, workers, pc, i, ctxDerived, chansMade, parentDone, signalled,
                   cancelCalled, runErrC, haltErrC, errC, wg, runPc, runRet,
                   haltRet, runCalls, result>>

\* what the Halt of worker w returns, by its behaviour
HaltValue(w) == IF workers[w].halt = "err" THEN HaltError(w) ELSE NoError

\* lines 203-204: Halt returns and its outcome, nil or not, is sent on haltErrC
HaltReturn(g) ==
    /\ haltPc[g] = "halting"
    /\ Len(haltErrC) < ChanCap
    /\ haltRet' = [haltRet EXCEPT ![g] = HaltValue(HaltWorkerOf(g))]
    /\ haltErrC' = Append(haltErrC, HaltValue(HaltWorkerOf(g)))
    /\ haltPc' = [haltPc EXCEPT ![g] = "returned"]
    /\ UNCHANGED <<multi, call, ret, errCClosed, workers, pc, i, ctxDerived, chansMade, parentDone, signalled,
                   cancelCalled, runErrC, errC, wg, runPc, runRet, runCalls,
                   haltCalls, result>>

\* line 202: the deferred wg.Done()
HaltDone(g) ==
    /\ haltPc[g] = "returned"
    /\ wg' = wg - 1
    /\ haltPc' = [haltPc EXCEPT ![g] = "exit"]
    /\ UNCHANGED <<multi, call, ret, errCClosed, workers, pc, i, ctxDerived, chansMade, parentDone, signalled,
                   cancelCalled, runErrC, haltErrC, errC, runPc, runRet,
                   haltRet, runCalls, haltCalls, result>>

(***************************************************************************)
(* The environment of the invocation                                       *)
(***************************************************************************)
\* line 163: os.Interrupt / SIGTERM is delivered while NotifyContext listens
\* (until the context is done or Start's deferred cancel() stops the listener)
Signal ==
    /\ ctxDerived
    /\ pc # "returned"
    /\ ~CtxDone
    /\ signalled' = TRUE
    /\ UNCHANGED <<multi, call, ret, errCClosed, workers, pc, i, ctxDerived, chansMade, parentDone,
                   cancelCalled, runErrC, haltErrC, errC, wg, runPc, runRet,
                   haltPc, haltRet, runCalls, haltCalls, result>>

\* line 158: the caller's ctx is cancelled or reaches its deadline, before or
\* during the invocation; once the derived context is done, the parent's end
\* changes nothing Start or a worker can read
ParentCancel ==
    /\ pc # "returned"
    /\ ~parentDone
    /\ ~CtxDone
    /\ parentDone' = TRUE
    /\ UNCHANGED <<multi, call, ret, errCClosed, workers, pc, i, ctxDerived, chansMade, signalled,
                   cancelCalled, runErrC, haltErrC, errC, wg, runPc, runRet,
                   haltPc, haltRet, runCalls, haltCalls, result>>

Next ==
    \/ StartEnter
    \/ SpawnLoop
    \/ Select
    \/ WaitAndReturn
    \/ \E g \in Ids : RunCall(g)
    \/ \E g \in Ids : RunReturn(g)
    \/ \E g \in Ids : RunCancel(g)
    \/ \E g \in Ids : HaltCall(g)
    \/ \E g \in Ids : HaltReturn(g)
    \/ \E g \in Ids : HaltDone(g)
    \/ Signal
    \/ ParentCancel

Spec == Init /\ [][Next]_vars

(***************************************************************************)
(* Fairness: the Go scheduler runs every runnable goroutine, so the body   *)
(* of Start, the send-then-cancel tail of a Run goroutine and the Halt     *)
(* goroutines keep taking their steps.  That a Halt call returns is the    *)
(* worker's side of the contract (Halter, lines 138-142).  When a worker's *)
(* Run returns, a signal arrives or the parent context ends is not forced. *)
(***************************************************************************)
HaltGoroutine(g) == g \in Ids /\ (HaltCall(g) \/ HaltReturn(g) \/ HaltDone(g))

RunTail(g) == g \in Ids /\ RunCancel(g)

FairSpec ==
    /\ Spec
    /\ WF_vars(Supervisor)
    /\ \A g \in 1..MaxWorkers : WF_vars(HaltGoroutine(g))
    /\ \A g \in 1..MaxWorkers : WF_vars(RunTail(g))

(***************************************************************************)
(* Vocabulary of the properties                                            *)
(***************************************************************************)
\* Start passes both precondition checks
AllNonNil == N >= 1 /\ \A k \in Ids : ~IsNil(workers[k])

HasNil == \E k \in Ids : IsNil(workers[k])

\* a value returned by Run or Halt that is a non-nil error
IsError(e) == e # NoError /\ e # NotReturned

Range(s) == {s[k] : k \in 1..Len(s)}

RECURSIVE OnlyRun(_)
\* the Run errors of a sequence of errors, in order
OnlyRun(s) ==
    IF s = <<>> THEN <<>>
    ELSE IF Head(s).op = "Run" THEN <<Head(s)>> \o OnlyRun(Tail(s))
         ELSE OnlyRun(Tail(s))

(***************************************************************************)
(* C1: when Start is called with non-nil workers only, Halt is invoked     *)
(* exactly once on every worker before Start returns: no worker is ever    *)
(* halted twice, and when Start has returned every worker was halted once, *)
(* the workers whose Run failed and those whose Run never failed alike.    *)
(***************************************************************************)
C1_HaltExactlyOnce ==
    AllNonNil =>
        /\ \A w \in Ids : haltCalls[w] <= 1
        /\ pc = "returned" => \A w \in Ids : haltCalls[w] = 1

\* Start returned after one worker's Run failed and another's never did
C1_Witness ==
    /\ pc = "returned"
    /\ AllNonNil
    /\ \E a, b \in Ids :
          /\ a # b
          /\ runRet[a] = RunError(a)
          /\ workers[b].run = "block"
    /\ \A w \in Ids : haltCalls[w] = 1

(***************************************************************************)
(* C2: if exactly one worker's Run returns a non-nil error e, every other  *)
(* Run blocks until cancellation and every Halt returns nil, then Start    *)
(* returns a MultiError whose Valid() is true and whose Error() is e's     *)
(* message.  Stated for the invocations in which nothing but the failing   *)
(* worker's cancel() cancels the context, so the error was sent on runErrC *)
(* before the context was cancelled.                                       *)
(***************************************************************************)
C2_RunErrorNeverLost ==
    \A f \in Ids :
        ( /\ pc = "returned"
          /\ AllNonNil
          /\ ~parentDone /\ ~signalled
          /\ workers[f].run = "err"
          /\ \A k \in Ids \ {f} : workers[k].run = "block"
          /\ \A k \in Ids : workers[k].halt = "ok" )
        => /\ result.kind = "MultiError"
           /\ Valid(result)
           /\ Error(result) = Message(RunError(f))

(***************************************************************************)
(* C3: every non-nil error returned by a worker's Halt is an element of    *)
(* the Errors of the MultiError that Start returns, so Start does not      *)
(* return nil when some Halt returned a non-nil error.                     *)
(***************************************************************************)
C3_HaltErrorsMerged ==
    (pc = "returned" /\ AllNonNil) =>
        \A g \in Ids :
            IsError(haltRet[g]) =>
                /\ result.kind = "MultiError"
                /\ haltRet[g] \in Range(result.Errors)

(***************************************************************************)
(* C4: if two or more Run errors arrived on the run-error channel before   *)
(* Start returns, the Run errors of the MultiError Start returns are all   *)
(* of them, in arrival order.  When Start is about to return, the errors   *)
(* that arrived are those already forwarded to errC followed by those      *)
(* still buffered in runErrC.                                              *)
(***************************************************************************)
C4_AllRunErrorsReturned ==
    [][ ( /\ pc = "wait"
          /\ pc' = "returned"
          /\ Len(OnlyRun(errC \o runErrC)) >= 2 )
        => OnlyRun(result'.Errors) = OnlyRun(errC \o runErrC) ]_vars

(***************************************************************************)
(* C5: when the worker list holds a nil entry at any position, Start       *)
(* returns the "nil worker" error and no worker's Run or Halt is invoked.  *)
(***************************************************************************)
C5_NilWorkerNothingInvoked ==
    HasNil =>
        /\ \A w \in Ids : runCalls[w] = 0 /\ haltCalls[w] = 0
        /\ pc = "returned" => result = ErrNilWorker

C7_HaltBarrier ==
    (pc = "returned" /\ AllNonNil) =>
        \A g \in Ids :
            haltPc[g] # "idle" =>
                /\ haltPc[g] \in {"returned", "exit"}
                /\ haltRet[g] # NotReturned

\* Start returned after the Halt calls of two or more workers came back
C7_Witness ==
    /\ pc = "returned"
    /\ AllNonNil
    /\ N >= 2
    /\ \A g \in Ids : haltPc[g] = "exit" /\ haltRet[g] # NotReturned

(***************************************************************************)
(* C8: no Halt is invoked while the shared context is un-cancelled: in     *)
(* every state in which a Halt goroutine was launched or a Halt call was   *)
(* made the derived context is cancelled, and a cancelled context stays    *)
(* cancelled.                                                              *)
(***************************************************************************)
HaltStarted ==
    \E g \in Ids : haltPc[g] # "idle" \/ haltCalls[g] > 0

C8_HaltOnlyWhenCancelled ==
    /\ [](HaltStarted => CtxDone)
    /\ [][CtxDone => CtxDone']_vars

\* a Halt call is in progress in the halt phase
C8_Witness ==
    /\ pc = "wait"
    /\ \E g \in Ids : haltPc[g] = "halting" /\ haltCalls[g] = 1
    /\ CtxDone

(***************************************************************************)
(* C9: if no worker's Run returns a non-nil error and every Halt returns   *)
(* nil, then once the parent context is cancelled or times out, Start      *)
(* eventually has halted every worker and returned nil.                    *)
(***************************************************************************)
C9_Pre ==
    /\ AllNonNil
    /\ \A k \in Ids : workers[k].run \in {"block", "nil"}
    /\ \A k \in Ids : workers[k].halt = "ok"

C9_ParentCancelHaltsAll ==
    (C9_Pre /\ parentDone) ~>
        ( /\ pc = "returned"
          /\ result = NilResult
          /\ \A w \in Ids : haltCalls[w] = 1 /\ haltPc[w] = "exit" )

\* Start returned nil after the parent context alone cancelled two workers
C9_Witness ==
    /\ C9_Pre
    /\ N >= 2
    /\ parentDone /\ ~signalled
    /\ pc = "returned"
    /\ result = NilResult
    /\ \A w \in Ids : haltCalls[w] = 1

(***************************************************************************)
(* C10: Start called with zero workers returns the "need at least 1        *)
(* worker" error at once: no context is derived, no channel is made, and   *)
(* Start is never anywhere but at its entry or returned.                   *)
(***************************************************************************)
C10_ZeroWorkers ==
    N = 0 =>
        /\ pc \in {"init", "returned"}
        /\ ~ctxDerived
        /\ ~chansMade
        /\ wg = 0
        /\ pc = "returned" => result = ErrNeedWorker

\* Start returned the error for an empty worker list
C10_Witness ==
    /\ N = 0
    /\ pc = "returned"
    /\ result = ErrNeedWorker

(***************************************************************************)
(* C11: after the precondition checks pass, what Start returns is nil or   *)
(* a MultiError whose Valid() is true and whose Errors hold no nil; and    *)
(* Start returns nil exactly when no non-nil error reached errC.           *)
(***************************************************************************)
C11_NilOrValidMultiError ==
    (pc = "returned" /\ AllNonNil) =>
        /\ \/ result = NilResult
           \/ /\ result.kind = "MultiError"
              /\ Valid(result)
              /\ \A k \in 1..Len(result.Errors) : IsError(result.Errors[k])
        /\ result = NilResult <=> (\A k \in 1..Len(errC) : ~IsError(errC[k]))

\* Start returned a MultiError made of the one error that reached errC
C11_Witness ==
    /\ pc = "returned"
    /\ AllNonNil
    /\ Len(errC) = 1
    /\ result.kind = "MultiError"
    /\ result.Errors = errC

(***************************************************************************)
(* Scheduling alone: every goroutine that can take a step of its own code  *)
(* takes it, but no Run and no Halt call is made to return.                *)
(***************************************************************************)
HaltGoroutineOwnSteps(g) == g \in Ids /\ (HaltCall(g) \/ HaltDone(g))

SchedSpec ==
    /\ Spec
    /\ WF_vars(Supervisor)
    /\ \A g \in 1..MaxWorkers : WF_vars(HaltGoroutineOwnSteps(g))
    /\ \A g \in 1..MaxWorkers : WF_vars(RunTail(g))

(***************************************************************************)
(* C12 as stated: a worker that ignores cancellation stalls Start: if      *)
(* after cancellation some worker's Run never returns, or some worker's    *)
(* Halt never returns, then Start never returns.                           *)
(***************************************************************************)
C12_RunOrHaltNeverReturningStalls ==
    \A g \in 1..MaxWorkers :
        ( \/ <>[](g \in Ids /\ CtxDone /\ runPc[g] = "running")
          \/ <>[](g \in Ids /\ CtxDone /\ haltPc[g] = "halting") )
        => [](pc # "returned")

(***************************************************************************)
(* C12 as amended: a worker whose Halt never returns stalls Start: if      *)
(* some Halt call made in the halt phase never returns, Start never        *)
(* returns.  (A Run that never returns stalls nothing: Start does not wait *)
(* for the Run goroutines.)                                                *)
(***************************************************************************)
C12_HaltNeverReturningStalls ==
    \A g \in 1..MaxWorkers :
        <>[](g \in Ids /\ CtxDone /\ haltPc[g] = "halting")
            => [](pc # "returned")

\* the barrier waits for the one Halt call that has not returned, while a Run
\* call is still in progress under the cancelled context
C12_Witness ==
    /\ pc = "wait"
    /\ N >= 2
    /\ CtxDone
    /\ wg = 1
    /\ \E g \in Ids : haltPc[g] = "halting"
    /\ \E g \in Ids : runPc[g] = "running"

(***************************************************************************)
(* C13: a signal acts as a run-phase failure does: once an interrupt or    *)
(* termination signal has cancelled the derived context, then under fair   *)
(* scheduling and with every Halt call returning, every worker is halted   *)
(* and Start eventually returns, whether or not any Run has returned.      *)
(***************************************************************************)
C13_SignalHaltsAllAndReturns ==
    (AllNonNil /\ signalled) ~>
        ( /\ pc = "returned"
          /\ \A w \in Ids : haltCalls[w] = 1 /\ haltRet[w] # NotReturned )

\* Start returned after a signal while no Run call had returned
C13_Witness ==
    /\ AllNonNil
    /\ N >= 2
    /\ signalled /\ ~parentDone
    /\ pc = "returned"
    /\ \A g \in Ids : runPc[g] = "running" /\ haltCalls[g] = 1


(***************************************************************************)
(* MultiError on its own: a caller holds a MultiError with up to MaxErrors *)
(* collected errors and calls one of its methods.                          *)
(***************************************************************************)
\* the most errors a MultiError of this specification holds
MaxErrors == 3

\* the errors a MultiError may hold
ErrorValues == {RunError(1), RunError(2), HaltError(1)}

MultiErrors ==
    [Errors : UNION {[1..n -> ErrorValues] : n \in 0..MaxErrors}]

startVars == <<workers, pc, i, ctxDerived, chansMade, parentDone, signalled,
               cancelCalled, runErrC, haltErrC, errC, wg, runPc, runRet,
               haltPc, haltRet, runCalls, haltCalls, result, errCClosed>>

MultiInit ==
    /\ multi \in MultiErrors
    /\ call = "none"
    /\ ret = NoReturn
    /\ workers = <<>>
    /\ pc = "init"
    /\ i = 1
    /\ ctxDerived = FALSE
    /\ chansMade = FALSE
    /\ parentDone = FALSE
    /\ signalled = FALSE
    /\ cancelCalled = FALSE
    /\ runErrC = <<>>
    /\ haltErrC = <<>>
    /\ errC = <<>>
    /\ wg = 0
    /\ runPc = <<>>
    /\ runRet = <<>>
    /\ haltPc = <<>>
    /\ haltRet = <<>>
    /\ runCalls = <<>>
    /\ haltCalls = <<>>
    /\ result = Pending
    /\ errCClosed = FALSE

\* line 238: e.Valid()
CallValid ==
    /\ call = "none"
    /\ call' = "Valid"
    /\ ret' = [valid |-> Valid(multi), err |-> NotReturned, text |-> <<>>]
    /\ UNCHANGED <<multi, startVars>>

\* lines 241-250: e.Error()
CallError ==
    /\ call = "none"
    /\ call' = "Error"
    /\ ret' = [valid |-> FALSE, err |-> NotReturned, text |-> Error(multi)]
    /\ UNCHANGED <<multi, startVars>>

\* lines 256-274: e.Unwrap()
CallUnwrap ==
    /\ call = "none"
    /\ call' = "Unwrap"
    /\ ret' = Unwrap(multi)
    /\ UNCHANGED <<multi, startVars>>

MultiNext == CallValid \/ CallError \/ CallUnwrap

MultiSpec == MultiInit /\ [][MultiNext]_vars


\* t occurs in s as a run of consecutive pieces
Contains(s, t) ==
    \E k \in 0..(Len(s) - Len(t)) : SubSeq(s, k + 1, k + Len(t)) = t

(***************************************************************************)
(* C14: MultiError.Error() renders by the number of collected errors: with *)
(* exactly one, that error's message verbatim; with two or more, a "more   *)
(* than one errors" message that contains the message of Errors[0], and of *)
(* no later error with another message.                                    *)
(***************************************************************************)
C14_ErrorRendering ==
    call = "Error" =>
        /\ Len(multi.Errors) = 1 => ret.text = Message(multi.Errors[1])
        /\ Len(multi.Errors) >= 2 =>
              /\ Head(ret.text)
                    = "there are more than one errors, first error: "
              /\ Contains(ret.text, Message(multi.Errors[1]))
              /\ \A k \in 2..Len(multi.Errors) :
                    Message(multi.Errors[k]) # Message(multi.Errors[1])
                        => ~Contains(ret.text, Message(multi.Errors[k]))

\* Error() was called on three errors, the later two unlike the first
C14_Witness ==
    /\ call = "Error"
    /\ Len(multi.Errors) = 3
    /\ multi.Errors[2] # multi.Errors[1]
    /\ multi.Errors[3] # multi.Errors[1]
    /\ Contains(ret.text, Message(multi.Errors[1]))

(***************************************************************************)
(* C15: a MultiError holding zero errors has Valid() false, Error() the    *)
(* "no errors" text and Unwrap() nil; and for every MultiError Valid() is  *)
(* true exactly when at least one error is collected.                      *)
(***************************************************************************)
C15_EmptyMultiError ==
    /\ call = "Valid" => (ret.valid <=> Len(multi.Errors) >= 1)
    /\ Len(multi.Errors) = 0 =>
          /\ call = "Valid" => ~ret.valid
          /\ call = "Error" => ret.text = <<"there are no errors">>
          /\ call = "Unwrap" => ret.err = NoError

\* Valid() was called on the empty MultiError
C15_Witness ==
    /\ multi.Errors = <<>>
    /\ call = "Valid"
    /\ ret.valid = FALSE

(***************************************************************************)
(* C16 as stated: Unwrap() returns the sole error itself when one error is *)
(* held, and with two or more a synthesized error whose message joins the  *)
(* text of every collected error, in collection order, with the separator  *)
(* " ; next => " between consecutive errors.                               *)
(***************************************************************************)
C16_UnwrapJoinsWithSpacedSeparator ==
    call = "Unwrap" =>
        /\ Len(multi.Errors) = 1 => ret.err = multi.Errors[1]
        /\ Len(multi.Errors) >= 2 =>
              /\ ret.err = Synthesized
              /\ Contains(ret.text, Join(ErrChain(multi), " ; next => "))

(***************************************************************************)
(* C16 as amended: the separator is "; next => ", without a space before   *)
(* the semicolon, and the joined text follows the prefix "multiple         *)
(* errors: ".  With n >= 2 errors the message is the prefix, then the text *)
(* of every collected error once and in collection order, with the         *)
(* separator between consecutive errors and nowhere else.                  *)
(***************************************************************************)
C16_UnwrapJoinsInOrder ==
    call = "Unwrap" =>
        /\ Len(multi.Errors) = 1 => ret.err = multi.Errors[1]
        /\ Len(multi.Errors) >= 2 =>
              LET n == Len(multi.Errors)
                  MessagePieces == Len(Message(multi.Errors[1]))
                  at(k) == 2 + (MessagePieces + 1) * (k - 1)
              IN /\ ret.err = Synthesized
                 /\ Len(ret.text) = 1 + MessagePieces * n + (n - 1)
                 /\ ret.text[1] = "multiple errors: "
                 /\ \A k \in 1..n :
                       SubSeq(ret.text, at(k), at(k) + MessagePieces - 1)
                          = Message(multi.Errors[k])
                 /\ \A k \in 1..(n - 1) :
                       ret.text[at(k) + MessagePieces] = "; next => "

\* Unwrap() was called on three errors that are not all the same
C16_Witness ==
    /\ call = "Unwrap"
    /\ Len(multi.Errors) = 3
    /\ multi.Errors[1] # multi.Errors[2]
    /\ multi.Errors[2] # multi.Errors[3]
    /\ ret.err = Synthesized


(***************************************************************************)
(* C17: in every call of Start, a worker whose Run was invoked has had its *)
(* Halt invoked when Start has returned, also when Start returns early     *)
(* because a later entry of the worker list is nil.                        *)
(***************************************************************************)
C17_RunImpliesHalt ==
    pc = "returned" =>
        \A w \in Ids : runCalls[w] > 0 => haltCalls[w] > 0

(***************************************************************************)
(* C18: no channel send in Start blocks: no channel ever holds more than   *)
(* its capacity, a Run goroutine whose Run call is in progress finds room  *)
(* in runErrC, a Halt goroutine whose Halt call is in progress finds room  *)
(* in haltErrC, and the select loop finds room in errC for whatever it     *)
(* can receive.  Each Run goroutine has sent at most once and the loop     *)
(* has forwarded at most N values.                                         *)
(***************************************************************************)
RunSenders == {g \in Ids : runPc[g] \in {"sent", "exit"} /\ IsError(runRet[g])}

C18_NoSendBlocks ==
    /\ Len(runErrC) <= ChanCap
    /\ Len(haltErrC) <= ChanCap
    /\ Len(errC) <= ChanCap
    /\ Len(runErrC) + Len(errC) <= Cardinality(RunSenders)
    /\ Len(haltErrC) = Cardinality({g \in Ids : haltPc[g] \in {"returned", "exit"}})
    /\ \A g \in Ids : runPc[g] = "running" => Len(runErrC) < ChanCap
    /\ \A g \in Ids : haltPc[g] = "halting" => Len(haltErrC) < ChanCap
    /\ (pc = "loop" /\ (runErrC # <<>> \/ haltErrC # <<>>))
          => Len(errC) < ChanCap

\* every Run goroutine has sent, nothing was received, and a Halt is to send
C18_Witness ==
    /\ N >= 2
    /\ Len(runErrC) = ChanCap
    /\ Len(haltErrC) = ChanCap - 1
    /\ \E g \in Ids : haltPc[g] = "halting"

(***************************************************************************)
(* C19: the MultiError Start returns holds nothing made up and nothing     *)
(* twice: every element of Errors is a non-nil value returned by some      *)
(* worker's Run or Halt in this invocation, no returned value occurs       *)
(* twice, and there are no more elements than Run and Halt calls made.     *)
(***************************************************************************)
RECURSIVE SumCalls(_, _)
SumCalls(f, n) == IF n = 0 THEN 0 ELSE f[n] + SumCalls(f, n - 1)

C19_NothingFabricatedOrDuplicated ==
    (pc = "returned" /\ result.kind = "MultiError") =>
        /\ \A k \in 1..Len(result.Errors) :
              /\ IsError(result.Errors[k])
              /\ \E g \in Ids : \/ runRet[g] = result.Errors[k]
                                \/ haltRet[g] = result.Errors[k]
        /\ \A j, k \in 1..Len(result.Errors) :
              result.Errors[j] = result.Errors[k] => j = k
        /\ Len(result.Errors)
              <= SumCalls(runCalls, N) + SumCalls(haltCalls, N)

\* Start returned a MultiError of two errors
C19_Witness ==
    /\ pc = "returned"
    /\ result.kind = "MultiError"
    /\ Len(result.Errors) = 2
    /\ result.Errors[1] # result.Errors[2]


(***************************************************************************)
(* The single-channel definition of Start (src/service.go lines 40-89):    *)
(* the Run and the Halt goroutines both send on errC, of capacity          *)
(* 2 * len(workers); the select has the ctx.Done() case only; errC is      *)
(* closed after wg.Wait().  The length check, the derived context, the     *)
(* spawn loop, the calls of Run and Halt, cancel() and wg.Done() read as   *)
(* in the three-channel definition.  A Run goroutine that sends on the     *)
(* closed errC panics: runPc[g] = "panic".                                 *)
(***************************************************************************)
\* line 48: make(chan error, len(workers)*2)
OldChanCap == 2 * N

\* lines 41-48
OldStartEnter == StartEnter

\* lines 50-61: the loop around the nil check and the go statement
OldSpawnLoop == SpawnLoop

\* lines 64-75: the select's only case; the Halt goroutines are launched
OldSelect ==
    /\ pc = "loop"
    /\ CtxDone
    /\ wg' = N
    /\ haltPc' = [g \in Ids |-> "spawned"]
    /\ pc' = "wait"
    /\ UNCHANGED <<multi, call, ret, errCClosed, workers, i, ctxDerived,
                   chansMade, parentDone, signalled, cancelCalled, runErrC,
                   haltErrC, errC, runPc, runRet, haltRet, runCalls,
                   haltCalls, result>>

\* lines 77-88: wg.Wait(), close(errC), the result, the deferred cancel()
OldWaitAndReturn ==
    /\ pc = "wait"
    /\ WgWaitReady
    /\ errCClosed' = TRUE
    /\ pc' = "returned"
    /\ result' = StartResult(errC)
    /\ cancelCalled' = TRUE
    /\ UNCHANGED <<multi, call, ret, workers, i, ctxDerived, chansMade,
                   parentDone, signalled, runErrC, haltErrC, errC, wg, runPc,
                   runRet, haltPc, haltRet, runCalls, haltCalls>>

\* lines 56-57: Run returns; a non-nil error is sent on errC, and a send on
\* the closed errC panics
OldRunReturn(g) ==
    /\ runPc[g] = "running"
    /\ workers[g].run = "block" => CtxDone
    /\ runRet' = [runRet EXCEPT ![g] = RunValue(g)]
    /\ IF RunFailed(RunValue(g))
       THEN IF errCClosed
            THEN /\ runPc' = [runPc EXCEPT ![g] = "panic"]
                 /\ UNCHANGED errC
            ELSE /\ Len(errC) < OldChanCap
                 /\ errC' = Append(errC, RunValue(g))
                 /\ runPc' = [runPc EXCEPT ![g] = "sent"]
       ELSE /\ runPc' = [runPc EXCEPT ![g] = "exit"]
            /\ UNCHANGED errC
    /\ UNCHANGED <<multi, call, ret, errCClosed, workers, pc, i, ctxDerived,
                   chansMade, parentDone, signalled, cancelCalled, runErrC,
                   haltErrC, wg, haltPc, haltRet, runCalls, haltCalls, result>>

\* line 73: Halt returns and its outcome, nil or not, is sent on errC
OldHaltReturn(g) ==
    /\ haltPc[g] = "halting"
    /\ Len(errC) < OldChanCap
    /\ haltRet' = [haltRet EXCEPT ![g] = HaltValue(HaltWorkerOf(g))]
    /\ errC' = Append(errC, HaltValue(HaltWorkerOf(g)))
    /\ haltPc' = [haltPc EXCEPT ![g] = "returned"]
    /\ UNCHANGED <<multi, call, ret, errCClosed, workers, pc, i, ctxDerived,
                   chansMade, parentDone, signalled, cancelCalled, runErrC,
                   haltErrC, wg, runPc, runRet, runCalls, haltCalls, result>>

OldNext ==
    \/ OldStartEnter
    \/ OldSpawnLoop
    \/ OldSelect
    \/ OldWaitAndReturn
    \/ \E g \in Ids : RunCall(g)
    \/ \E g \in Ids : OldRunReturn(g)
    \/ \E g \in Ids : RunCancel(g)
    \/ \E g \in Ids : HaltCall(g)
    \/ \E g \in Ids : OldHaltReturn(g)
    \/ \E g \in Ids : HaltDone(g)
    \/ Signal
    \/ ParentCancel

OldSpec == Init /\ [][OldNext]_vars

(***************************************************************************)
(* C20: in the single-channel definition of Start no goroutine sends on    *)
(* errC after it was closed: no Run goroutine panics on its send, also     *)
(* when its Run returns a non-nil error after every Halt call returned.    *)
(***************************************************************************)
C20_NoSendOnClosedErrC ==
    \A g \in Ids : runPc[g] # "panic"

====
